---- MODULE Spec2Model ----
(***************************************************************************)
(* A model of the trivia API of backend/flaskr/__init__.py: the question   *)
(* store, the request handlers of create_app and the error handlers.       *)
(*                                                                         *)
(* Python values are encoded as follows.                                   *)
(*   - An optional value (a JSON field that may be absent or null, a       *)
(*     nullable column, the result of one_or_none) is a sequence of        *)
(*     length at most one: None is << >> and a value v is << v >>.         *)
(*   - A text is a sequence of one-character strings; "" is << >>.         *)
(*   - A question row is a record id, question, answer, category,          *)
(*     difficulty; all but id are optional values.                         *)
(*   - A response is [status |-> HTTP status, body |-> the JSON object].   *)
(***************************************************************************)
EXTENDS Integers, Sequences, FiniteSets, TLC

VARIABLES
    questions,   \* the rows of table Question, in id order
    inserted,    \* the number of rows inserted since the start
    deleted,     \* history: the ids removed by a DELETE since the start
    req,         \* the request served last
    resp,        \* the response to it
    session      \* the quiz client: ids shown so far and the chosen category

vars == <<questions, inserted, deleted, req, resp, session>>

----------------------------------------------------------------------------
(* Program constant and the bounds of the model *)

QUESTIONS_PER_PAGE == 10

\* The rows with ids 1..MaxSeed are stored when the run starts (specification
\* Spec).
MaxSeed == 2
\* Categories have ids 1..MaxCategory.
MaxCategory == 2
\* Numeric page parameters range over -MaxPage..MaxPage.
MaxPage == 2
\* Rows in the store of the listing specification SpecList.
MaxListRows == 12
\* Rows in the store of the quiz specification SpecQuiz.
MaxQuizRows == 3

----------------------------------------------------------------------------
(* Optional values *)

None == << >>
Some(v) == << v >>
Val(o) == o[1]

Min(a, b) == IF a < b THEN a ELSE b
Max(a, b) == IF a > b THEN a ELSE b

\* Python truthiness of an optional text: None and "" are falsy.
Truthy(t) == t # None /\ Val(t) # << >>

----------------------------------------------------------------------------
(* The data layer: tables Category and Question *)

\* Table Category: read-only, id -> type.
categories == [c \in 1..MaxCategory |-> <<"type", c>>]

\* Category.query.filter_by(id=category_id).one_or_none()
category_by_id(category_id) ==
    IF category_id \in DOMAIN categories
    THEN Some([id |-> category_id, type |-> categories[category_id]])
    ELSE None

\* Question.format(): the row as a JSON object.
format(q) ==
    [id |-> q.id, question |-> q.question, answer |-> q.answer,
     category |-> q.category, difficulty |-> q.difficulty]

\* The store holds ids of 1..MaxId: one row is inserted per run of Spec.
MaxId == MaxSeed + 1

\* The ids the store may assign to a new row: any id no stored row has (the
\* id is unique and server-generated; whether the id of a deleted row is
\* assigned again is left open).
assignable_ids(rows) == (1..MaxId) \ {rows[i].id : i \in 1..Len(rows)}

\* Question.insert(): the write fails and raises, leaving the table as it
\* was, or the row is stored under the id the store assigns.
insert(rows, id, question_text, answer_text, difficulty, category, write_fails) ==
    LET new_question ==
            [id |-> id, question |-> question_text, answer |-> answer_text,
             category |-> category, difficulty |-> difficulty]
        Before(q) == q.id < id
        After(q) == q.id > id
    IN  IF write_fails THEN [raised |-> TRUE, rows |-> rows]
        ELSE [raised |-> FALSE,
              rows |-> SelectSeq(rows, Before) \o <<new_question>>
                       \o SelectSeq(rows, After)]

\* Question.delete(): the write fails and raises, leaving the table as it
\* was, or the row with this id is removed.
delete(rows, id, write_fails) ==
    LET Keep(q) == q.id # id
    IN  IF write_fails THEN [raised |-> TRUE, rows |-> rows]
        ELSE [raised |-> FALSE, rows |-> SelectSeq(rows, Keep)]

\* Question.query.filter_by(id=question_id).one_or_none()
question_by_id(rows, question_id) ==
    LET Keep(q) == q.id = question_id
        found == SelectSeq(rows, Keep)
    IN  IF found = << >> THEN None ELSE Some(found[1])

\* Question.query.filter_by(category=category_id): NULL equals nothing.
filter_by_category(rows, category_id) ==
    LET Keep(q) == q.category # None /\ Val(q.category) = category_id
    IN  SelectSeq(rows, Keep)

\* .filter(Question.id.notin_(previous_questions))
filter_id_notin(rows, previous_questions) ==
    LET Keep(q) == q.id \notin previous_questions IN SelectSeq(rows, Keep)

Lower(c) ==
    CASE c = "A" -> "a" [] c = "B" -> "b" [] c = "C" -> "c" [] c = "X" -> "x"
      [] OTHER -> c

\* SQL LIKE on lower-cased operands: % matches any run, _ any one character.
RECURSIVE LikeMatch(_, _)
LikeMatch(pattern, text) ==
    IF pattern = << >> THEN text = << >>
    ELSE IF Head(pattern) = "%"
         THEN LikeMatch(Tail(pattern), text)
              \/ (text # << >> /\ LikeMatch(pattern, Tail(text)))
    ELSE /\ text # << >>
         /\ (Head(pattern) = "_" \/ Lower(Head(pattern)) = Lower(Head(text)))
         /\ LikeMatch(Tail(pattern), Tail(text))

\* Question.query.filter(Question.question.ilike(f"%{search_term}%"))
filter_ilike(rows, search_term) ==
    LET Keep(q) == /\ q.question # None
                   /\ LikeMatch(<<"%">> \o search_term \o <<"%">>, Val(q.question))
    IN  SelectSeq(rows, Keep)

Ids(rows) == {rows[i].id : i \in 1..Len(rows)}

----------------------------------------------------------------------------
(* paginate_questions *)

\* request.args.get("page", 1, type=int): absent or not a number gives 1.
page_number_of(page) ==
    IF page = None THEN 1
    ELSE IF ~Val(page).numeric THEN 1
    ELSE Val(page).val

\* Python's s[start:stop] for a list s.
PySlice(s, start, stop) ==
    LET n  == Len(s)
        lo == IF start < 0 THEN Max(start + n, 0) ELSE Min(start, n)
        hi == IF stop < 0 THEN Max(stop + n, 0) ELSE Min(stop, n)
    IN  IF lo < hi THEN SubSeq(s, lo + 1, hi) ELSE << >>

paginate_questions(page, question_list) ==
    LET page_number == page_number_of(page)
        start_index == (page_number - 1) * QUESTIONS_PER_PAGE
        end_index   == start_index + QUESTIONS_PER_PAGE
        formatted_questions ==
            [i \in 1..Len(question_list) |-> format(question_list[i])]
    IN  PySlice(formatted_questions, start_index, end_index)

----------------------------------------------------------------------------
(* The error handlers *)

bad_request_error ==
    [status |-> 400,
     body |-> [success |-> FALSE, error |-> 400, message |-> "bad request"]]

not_found ==
    [status |-> 404,
     body |-> [success |-> FALSE, error |-> 404, message |-> "resource not found"]]

method_not_allowed ==
    [status |-> 405,
     body |-> [success |-> FALSE, error |-> 405, message |-> "method not allowed"]]

unprocessable ==
    [status |-> 422,
     body |-> [success |-> FALSE, error |-> 422, message |-> "unprocessable"]]

internal_server_error ==
    [status |-> 422,
     body |-> [success |-> FALSE, error |-> 500,
               message |-> "internal server error"]]

\* jsonify(...) returned from a view: status 200.
Ok(body) == [status |-> 200, body |-> body]

----------------------------------------------------------------------------
(* The request handlers *)

\* GET /categories
get_all_categories ==
    IF DOMAIN categories = {} THEN not_found
    ELSE Ok([categories |-> categories, success |-> TRUE])

\* get_questions with the 404 decided by the store, not by the page.
get_questions_404_on_empty_store(page, rows) ==
    LET all_questions == rows
        paginated_questions == paginate_questions(page, all_questions)
    IN  IF Len(all_questions) = 0 THEN not_found
        ELSE Ok([success |-> TRUE,
                 total_questions |-> Len(all_questions),
                 categories |-> categories,
                 questions |-> paginated_questions])

\* GET /questions?page=
get_questions(page, rows) ==
    LET all_questions == rows
        paginated_questions == paginate_questions(page, all_questions)
    IN  IF Len(paginated_questions) = 0 THEN not_found
        ELSE Ok([success |-> TRUE,
                 total_questions |-> Len(all_questions),
                 categories |-> categories,
                 questions |-> paginated_questions])

\* delete_question with total_questions counted before the row is deleted.
delete_question_stale_total(question_id, rows, write_fails) ==
    LET question_to_delete == question_by_id(rows, question_id)
        written == delete(rows, question_id, write_fails)
    IN  IF question_to_delete = None
        THEN [rows |-> rows, resp |-> not_found]
        ELSE IF written.raised
        THEN [rows |-> written.rows, resp |-> internal_server_error]
        ELSE [rows |-> written.rows,
              resp |-> Ok([deleted |-> question_id,
                           success |-> TRUE,
                           total_questions |-> Len(rows)])]

\* DELETE /questions/<question_id>: the store after the request and the
\* response. write_fails: whether question_to_delete.delete() raises; it is
\* called outside any try block, so the 500 handler answers.
delete_question(question_id, rows, write_fails) ==
    LET question_to_delete == question_by_id(rows, question_id)
        written == delete(rows, question_id, write_fails)
    IN  IF question_to_delete = None
        THEN [rows |-> rows, resp |-> not_found]
        ELSE IF written.raised
        THEN [rows |-> written.rows, resp |-> internal_server_error]
        ELSE [rows |-> written.rows,
              resp |-> Ok([deleted |-> question_id,
                           success |-> TRUE,
                           total_questions |-> Len(written.rows)])]

\* POST /questions?page= with JSON body request_body (None: the body null).
\* id is the id the store would assign, write_fails whether
\* new_question.insert() raises.
create_a_question(request_body, page, rows, id, write_fails) ==
    IF request_body = None
    THEN \* request_body.get raises outside the try block
         [rows |-> rows, resp |-> internal_server_error]
    ELSE
    LET b == Val(request_body)
        question_text == b.question
        answer_text == b.answer
        difficulty_level == b.difficulty
        category_id == b.category
        search_term == b.searchTerm
    IN  IF Truthy(search_term)
        THEN LET matched_questions == filter_ilike(rows, Val(search_term))
                 paginated_questions == paginate_questions(page, matched_questions)
             IN  [rows |-> rows,
                  resp |-> Ok([success |-> TRUE,
                               questions |-> paginated_questions,
                               total_questions |-> Len(paginated_questions)])]
        ELSE LET written == insert(rows, id, question_text, answer_text,
                                   difficulty_level, category_id, write_fails)
                 all_questions == written.rows
                 paginated_questions == paginate_questions(page, all_questions)
             IN  IF written.raised
                 THEN [rows |-> written.rows, resp |-> unprocessable]
                 ELSE [rows |-> all_questions,
                       resp |-> Ok([success |-> TRUE,
                                    question_created |-> question_text,
                                    created |-> id,
                                    questions |-> paginated_questions,
                                    total_questions |-> Len(all_questions)])]

\* GET /categories/<category_id>/questions?page=
get_questions_by_category(category_id, page, rows) ==
    LET category == category_by_id(category_id)
    IN  IF category = None THEN not_found
        ELSE LET questions_in_category ==
                     filter_by_category(rows, Val(category).id)
                 paginated_questions ==
                     paginate_questions(page, questions_in_category)
             IN  Ok([success |-> TRUE,
                     total_questions |-> Len(rows),
                     current_category |-> Val(category).type,
                     questions |-> paginated_questions])

\* available_questions without the exclusion of the previous questions.
available_questions_keeps_previous(previous_questions, category_id, rows) ==
    IF category_id # 0
    THEN filter_by_category(rows, category_id)
    ELSE rows

\* The rows play_game chooses from: the questions of the category, or all
\* when the id is 0, whose id is not among the previous ones.
available_questions(previous_questions, category_id, rows) ==
    IF category_id # 0
    THEN filter_id_notin(filter_by_category(rows, category_id), previous_questions)
    ELSE filter_id_notin(rows, previous_questions)

\* play_game that needs two available questions to return one.
play_game_needs_two(request_body, rows) ==
    IF request_body = None THEN {unprocessable}
    ELSE
    LET previous_questions == Val(request_body).previous_questions
        quiz_category == Val(request_body).quiz_category
    IN  IF quiz_category = None THEN {unprocessable}
        ELSE IF previous_questions = None THEN {unprocessable}
        ELSE LET available == available_questions(Val(previous_questions),
                                                  Val(quiz_category).id, rows)
             IN  IF Len(available) > 1
                 THEN {Ok([question |-> Some(format(available[i])),
                           success |-> TRUE]) : i \in 1..Len(available)}
                 ELSE {Ok([question |-> None, success |-> TRUE])}

\* POST /play: the responses random.choice allows. The question of a response
\* is an optional value: None is JSON null.
play_game(request_body, rows) ==
    IF request_body = None THEN {unprocessable}
    ELSE
    LET previous_questions == Val(request_body).previous_questions
        quiz_category == Val(request_body).quiz_category
    IN  IF quiz_category = None THEN {unprocessable}    \* None['id']
        ELSE IF previous_questions = None THEN {unprocessable}  \* notin_(None)
        ELSE LET available == available_questions(Val(previous_questions),
                                                  Val(quiz_category).id, rows)
             IN  IF Len(available) > 0
                 THEN {Ok([question |-> Some(format(available[i])),
                           success |-> TRUE]) : i \in 1..Len(available)}
                 ELSE {Ok([question |-> None, success |-> TRUE])}

----------------------------------------------------------------------------
(* Requests *)

Request(endpoint, id, page, body) ==
    [endpoint |-> endpoint, id |-> id, page |-> page, body |-> body]

NoRequest == Request("none", 0, None, None)
NoResponse == [status |-> 0, body |-> [success |-> FALSE]]

\* The page query parameter: absent, not a number, or a number.
PageArgs ==
    {None, Some([numeric |-> FALSE, val |-> 0])}
    \cup {Some([numeric |-> TRUE, val |-> v]) : v \in (0 - MaxPage)..MaxPage}

Page(v) == Some([numeric |-> TRUE, val |-> v])

QuestionTexts == {None, Some(<< >>), Some(<<"A", "b">>)}
AnswerTexts == {None, Some(<< >>), Some(<<"x">>)}
SearchTerms == {Some(<< >>), Some(<<"a">>), Some(<<"c">>)}

Body(question_text, answer_text, category_id, search_term) ==
    [question |-> question_text, answer |-> answer_text,
     difficulty |-> Some(1), category |-> category_id,
     searchTerm |-> search_term]

\* JSON bodies of POST /questions: null; objects without searchTerm, with
\* any question text, any answer text, or no category; objects with a
\* searchTerm.
QuestionBodies ==
    {None}
    \cup {Some(Body(q, Some(<<"x">>), Some(1), None)) : q \in QuestionTexts}
    \cup {Some(Body(Some(<<"A", "b">>), a, Some(1), None)) : a \in AnswerTexts}
    \cup {Some(Body(Some(<<"A", "b">>), Some(<<"x">>), None, None))}
    \cup {Some(Body(Some(<<"A", "b">>), Some(<<"x">>), Some(1), t)) :
              t \in SearchTerms}

\* The page parameters tried on POST /questions.
PostPageArgs == {None, Page(MaxPage)}

\* JSON bodies of POST /play.
PlayBodies ==
    {None} \cup
    {Some(b) : b \in [previous_questions :
                          {None} \cup {Some(S) : S \in SUBSET (1..MaxId)},
                      quiz_category :
                          {None} \cup {Some([id |-> c]) : c \in 0..MaxCategory}]}

----------------------------------------------------------------------------
(* The store at start *)

SeedText(i) == IF i % 2 = 1 THEN <<"A", "b">> ELSE <<"a">>

SeedRow(i, category_id) ==
    [id |-> i, question |-> Some(SeedText(i)), answer |-> Some(<<"x">>),
     category |-> Some(category_id), difficulty |-> Some(1)]

\* n rows with ids 1..n, their categories assigned round robin.
SeedStore(n) == [i \in 1..n |-> SeedRow(i, ((i - 1) % MaxCategory) + 1)]

----------------------------------------------------------------------------
(* Specification Spec: the API over a small store *)

\* The id offered to a POST /questions: one the store may assign (0 when the
\* store can take no further row, and none is inserted).
IdChoices(rows) ==
    IF assignable_ids(rows) = {} THEN {0} ELSE assignable_ids(rows)

Init ==
    /\ questions = SeedStore(MaxSeed)
    /\ inserted = 0
    /\ deleted = {}
    /\ req = NoRequest
    /\ resp = NoResponse
    /\ session = [previous |-> << >>, category |-> 0]

GetAllCategories ==
    /\ req' = Request("get_all_categories", 0, None, None)
    /\ resp' = get_all_categories
    /\ UNCHANGED <<questions, inserted, deleted, session>>

GetQuestions ==
    \E page \in PageArgs :
        /\ req' = Request("get_questions", 0, page, None)
        /\ resp' = get_questions(page, questions)
        /\ UNCHANGED <<questions, inserted, deleted, session>>

DeleteQuestion ==
    \E question_id \in 1..MaxId, write_fails \in BOOLEAN :
        LET out == delete_question(question_id, questions, write_fails)
        IN  /\ req' = Request("delete_question", question_id, None, None)
            /\ resp' = out.resp
            /\ questions' = out.rows
            /\ deleted' = IF out.resp.status = 200
                          THEN deleted \cup {question_id} ELSE deleted
            /\ UNCHANGED <<inserted, session>>

CreateAQuestion ==
    \E request_body \in QuestionBodies, page \in PostPageArgs,
       write_fails \in BOOLEAN, id \in IdChoices(questions) :
        LET out == create_a_question(request_body, page, questions, id, write_fails)
            stored == IF out.rows # questions THEN 1 ELSE 0
        IN  /\ inserted + stored <= MaxId - MaxSeed
            /\ req' = Request("create_a_question", 0, page, request_body)
            /\ resp' = out.resp
            /\ questions' = out.rows
            /\ inserted' = inserted + stored
            /\ UNCHANGED <<deleted, session>>

GetQuestionsByCategory ==
    \E category_id \in 0..MaxCategory, page \in PageArgs :
        /\ req' = Request("get_questions_by_category", category_id, page, None)
        /\ resp' = get_questions_by_category(category_id, page, questions)
        /\ UNCHANGED <<questions, inserted, deleted, session>>

PlayGame ==
    \E request_body \in PlayBodies :
        /\ req' = Request("play_game", 0, None, request_body)
        /\ resp' \in play_game(request_body, questions)
        /\ UNCHANGED <<questions, inserted, deleted, session>>

\* A method a route does not list, e.g. POST /categories: answered by the
\* 405 handler.
MethodNotAllowed ==
    /\ req' = Request("method_not_allowed", 0, None, None)
    /\ resp' = method_not_allowed
    /\ UNCHANGED <<questions, inserted, deleted, session>>

Next ==
    \/ GetAllCategories
    \/ GetQuestions
    \/ DeleteQuestion
    \/ CreateAQuestion
    \/ GetQuestionsByCategory
    \/ PlayGame
    \/ MethodNotAllowed

Spec == Init /\ [][Next]_vars

----------------------------------------------------------------------------
(* Specification SpecList: the list-returning requests over stores of up   *)
(* to MaxListRows rows, more than one page                                 *)

ListSearchTerms == {<<"a">>, <<"B">>, <<"c">>}

InitList ==
    /\ \E n \in 0..MaxListRows : questions = SeedStore(n)
    /\ inserted = 0
    /\ deleted = {}
    /\ req = NoRequest
    /\ resp = NoResponse
    /\ session = [previous |-> << >>, category |-> 0]

\* POST /questions with a non-empty searchTerm.
SearchQuestions ==
    \E search_term \in ListSearchTerms, page \in PageArgs :
        LET request_body == Some(Body(None, None, None, Some(search_term)))
            out == create_a_question(request_body, page, questions, 0, FALSE)
        IN  /\ req' = Request("create_a_question", 0, page, request_body)
            /\ resp' = out.resp
            /\ questions' = out.rows
            /\ UNCHANGED <<inserted, deleted, session>>

NextList ==
    \/ GetQuestions
    \/ SearchQuestions
    \/ GetQuestionsByCategory

SpecList == InitList /\ [][NextList]_vars

----------------------------------------------------------------------------
(* Specification SpecQuiz: one quiz session of a client over a fixed store *)

Range(f) == {f[i] : i \in DOMAIN f}

\* Stores of up to MaxQuizRows rows, each row in any category.
QuizStores ==
    UNION {{[i \in 1..n |-> SeedRow(i, f[i])] : f \in [1..n -> 1..MaxCategory]}
           : n \in 0..MaxQuizRows}

InitQuiz ==
    /\ questions \in QuizStores
    /\ inserted = 0
    /\ deleted = {}
    /\ req = NoRequest
    /\ resp = NoResponse
    /\ \E c \in 0..MaxCategory : session = [previous |-> << >>, category |-> c]

\* The client posts the ids it was shown and its category, and records the id
\* of the question it gets.
QuizStep ==
    LET request_body ==
            Some([previous_questions |-> Some(Range(session.previous)),
                  quiz_category |-> Some([id |-> session.category])])
    IN  /\ req' = Request("play_game", 0, None, request_body)
        /\ resp' \in play_game(request_body, questions)
        /\ session' =
              IF resp'.status = 200 /\ resp'.body.question # None
              THEN [session EXCEPT
                        !.previous = Append(@, Val(resp'.body.question).id)]
              ELSE session
        /\ UNCHANGED <<questions, inserted, deleted>>

NextQuiz == QuizStep

SpecQuiz == InitQuiz /\ [][NextQuiz]_vars

----------------------------------------------------------------------------
(* Properties *)

IsCreate == req.endpoint = "create_a_question" /\ req.body # None
IsPlay == req.endpoint = "play_game"
IsList == req.endpoint = "get_questions"

\* A page parameter that is absent, not a number, zero or negative.
NotPositivePage(page) ==
    page = None \/ ~Val(page).numeric \/ Val(page).val <= 0

\* The first QUESTIONS_PER_PAGE rows of a list, formatted.
FirstPage(rows) ==
    [i \in 1..Min(Len(rows), QUESTIONS_PER_PAGE) |-> format(rows[i])]

\* The ids of the questions a response shows.
ShownIds(request, response) ==
    IF response.status # 200 THEN {}
    ELSE IF request.endpoint \in {"get_questions", "create_a_question",
                                  "get_questions_by_category"}
    THEN {response.body.questions[i].id : i \in 1..Len(response.body.questions)}
    ELSE IF request.endpoint = "play_game" /\ response.body.question # None
    THEN {Val(response.body.question).id}
    ELSE {}

\* The ids a quiz over category c may show: every id when c is 0.
CandidateIds(rows, c) ==
    {rows[i].id : i \in {j \in 1..Len(rows) :
                           c = 0 \/ rows[j].category = Some(c)}}

\* C1: a POST /questions without searchTerm whose question or answer text is
\* empty or absent is answered with the 400 error and leaves the stored
\* questions as they were.
C1_EmptyTextRejected ==
    [][(/\ req'.endpoint = "create_a_question"
        /\ req'.body # None
        /\ Val(req'.body).searchTerm = None
        /\ (~Truthy(Val(req'.body).question) \/ ~Truthy(Val(req'.body).answer)))
       => (resp' = bad_request_error /\ questions' = questions)]_vars

\* C2: a POST /play response with a non-null question carries a stored
\* question whose id is not in previous_questions and, when the category id
\* is not 0, whose category is that id.
C2_QuizQuestionAllowed ==
    (IsPlay /\ resp.status = 200 /\ resp.body.question # None) =>
        LET q == Val(resp.body.question)
            previous_questions == Val(Val(req.body).previous_questions)
            category_id == Val(Val(req.body).quiz_category).id
        IN  /\ \E i \in 1..Len(questions) :
                   /\ questions[i].id = q.id
                   /\ questions[i].question = q.question
                   /\ questions[i].answer = q.answer
                   /\ questions[i].category = q.category
                   /\ questions[i].difficulty = q.difficulty
            /\ q.id \notin previous_questions
            /\ (category_id # 0 => q.category = Some(category_id))

\* A quiz answer in a category, with an id excluded and another row stored.
C2_Witness ==
    /\ IsPlay /\ resp.status = 200 /\ resp.body.question # None
    /\ Val(Val(req.body).quiz_category).id # 0
    /\ Val(Val(req.body).previous_questions) \cap Ids(questions) # {}
    /\ Len(questions) >= 3

\* C3: in a quiz session over an unchanging store every call succeeds; while
\* a candidate of the category is unseen the call returns one of the unseen
\* candidates (so no id is returned twice); after as many calls as there are
\* candidates the call returns the null question.
C3_QuizSession ==
    [][LET candidates == CandidateIds(questions, session.category)
           unseen == candidates \ Range(session.previous)
       IN  /\ resp'.status = 200 /\ resp'.body.success
           /\ unseen # {} =>
                  /\ resp'.body.question # None
                  /\ Val(resp'.body.question).id \in unseen
                  /\ session'.previous =
                         Append(session.previous, Val(resp'.body.question).id)
           /\ Len(session.previous) = Cardinality(candidates) =>
                  resp'.body.question = None
           /\ Len(session.previous) <= Cardinality(candidates)
           /\ Cardinality(Range(session'.previous)) = Len(session'.previous)
      ]_vars

\* A session in a category that has shown its two candidates, not the whole
\* store, and has been told that none is left.
C3_Witness ==
    /\ IsPlay /\ resp.status = 200 /\ resp.body.question = None
    /\ session.category # 0
    /\ Len(session.previous) >= 2
    /\ Len(questions) > Len(session.previous)

\* C4: POST /play without previous_questions, or without quiz_category,
\* succeeds with a result of the request that gives the field as the empty
\* list, or as the category of id 0.
C4_AbsentFieldsTolerated ==
    (/\ IsPlay /\ req.body # None
     /\ (Val(req.body).previous_questions = None
         \/ Val(req.body).quiz_category = None)) =>
        LET b == Val(req.body)
            explicit ==
                [previous_questions |->
                     IF b.previous_questions = None THEN Some({})
                     ELSE b.previous_questions,
                 quiz_category |->
                     IF b.quiz_category = None THEN Some([id |-> 0])
                     ELSE b.quiz_category]
        IN  /\ resp.status = 200
            /\ resp \in play_game(Some(explicit), questions)

\* C5: for a page parameter that is zero, negative, absent or not a number
\* the page returned is the first page: the first 10 items, or all of them.
\* GET /questions shows the page, or answers 404 when the page is empty; the
\* search shows the page of the matching questions.
C5_NotPositivePageIsFirstPage ==
    /\ (IsList /\ NotPositivePage(req.page)) =>
           IF resp.status = 200
           THEN resp.body.questions = FirstPage(questions)
           ELSE FirstPage(questions) = << >>
    /\ (IsCreate /\ resp.status = 200 /\ Truthy(Val(req.body).searchTerm)
        /\ NotPositivePage(req.page)) =>
           resp.body.questions =
               FirstPage(filter_ilike(questions, Val(Val(req.body).searchTerm)))

\* C6, as claimed, for the pages that negative indices do not touch (page
\* absent, not a number, or >= 1): GET /questions answers 404 exactly when no
\* question is stored; with a question stored and a page beyond the last one
\* it answers 200 with success, an empty list and total_questions the number
\* stored.
C6_NotFoundOnlyWhenStoreEmpty ==
    (IsList /\ page_number_of(req.page) >= 1) =>
        /\ resp.status = 404 <=> Len(questions) = 0
        /\ (/\ Len(questions) > 0
            /\ (page_number_of(req.page) - 1) * QUESTIONS_PER_PAGE
                   >= Len(questions)) =>
               /\ resp.status = 200
               /\ resp.body.success
               /\ resp.body.questions = << >>
               /\ resp.body.total_questions = Len(questions)

\* Whether page p of n items holds no item: p >= 1 starts at (p - 1) * 10,
\* page 0 is always empty, page p < 0 is empty up to 10 * |p| items.
PageIsEmpty(p, n) ==
    IF p >= 1 THEN (p - 1) * QUESTIONS_PER_PAGE >= n
    ELSE IF p = 0 THEN TRUE
    ELSE n <= (0 - p) * QUESTIONS_PER_PAGE

\* C6, amended: GET /questions answers 404 exactly when the requested page
\* holds no question (the store is empty, or the page lies beyond the last
\* one, or the page is 0, or it is negative and the store holds at most
\* 10 * |page| questions); otherwise it answers 200 with success, a
\* non-empty list and total_questions the number stored.
C6_NotFoundWhenPageEmpty ==
    IsList =>
        LET empty == PageIsEmpty(page_number_of(req.page), Len(questions))
        IN  /\ resp.status = 404 <=> empty
            /\ ~empty =>
                   /\ resp.status = 200
                   /\ resp.body.success
                   /\ Len(resp.body.questions) >= 1
                   /\ resp.body.total_questions = Len(questions)

\* A 404 for page 2 of a store that holds exactly one full page.
C6_Witness ==
    /\ IsList /\ resp.status = 404
    /\ Len(questions) = QUESTIONS_PER_PAGE
    /\ req.page = Page(2)

\* C7: on every list-returning request total_questions is the size of the
\* full result that is paginated: all questions, the questions matching the
\* search term, the questions of the category. Stated for the pages that
\* negative indices do not touch (page absent, not a number, or >= 1).
C7_TotalIsSizeOfFullResult ==
    page_number_of(req.page) >= 1 =>
    /\ (IsList /\ resp.status = 200) =>
           resp.body.total_questions = Len(questions)
    /\ (IsCreate /\ resp.status = 200 /\ Truthy(Val(req.body).searchTerm)) =>
           resp.body.total_questions =
               Len(filter_ilike(questions, Val(Val(req.body).searchTerm)))
    /\ (req.endpoint = "get_questions_by_category" /\ resp.status = 200) =>
           resp.body.total_questions = Len(filter_by_category(questions, req.id))

\* C8: a request with an empty searchTerm is answered with the 400 error, and
\* no request with a searchTerm changes the stored questions.
C8_SearchLeavesStore ==
    [][(/\ req'.endpoint = "create_a_question"
        /\ req'.body # None
        /\ Val(req'.body).searchTerm # None)
       => /\ Val(Val(req'.body).searchTerm) = << >> => resp' = bad_request_error
          /\ questions' = questions]_vars

\* The id a response reports as created: that of a POST /questions that
\* stored a row.
CreatedIds(request, response, before, after) ==
    IF request.endpoint = "create_a_question" /\ response.status = 200
       /\ after # before
    THEN {response.body.created}
    ELSE {}

\* The outcome of a successful DELETE of id q from the rows before: deleted
\* is q, total_questions is one less, exactly q is gone, every other row is
\* as it was.
DeletedExactly(q, before, after, response) ==
    /\ response.status = 200
    /\ response.body.success
    /\ response.body.deleted = q
    /\ response.body.total_questions = Len(before) - 1
    /\ Len(after) = Len(before) - 1
    /\ Ids(after) = Ids(before) \ {q}
    /\ \A i \in 1..Len(after) : \E j \in 1..Len(before) : after[i] = before[j]

\* C9, as claimed: DELETE of a stored id q succeeds with deleted = q and
\* total_questions one less than before, removes exactly q and changes no
\* other question; after that, q is stored and shown by no later request, and
\* a second DELETE of q answers 404 and leaves the store unchanged.
C9_DeleteIsFinal ==
    [][/\ (req'.endpoint = "delete_question" /\ req'.id \in Ids(questions)) =>
              DeletedExactly(req'.id, questions, questions', resp')
       /\ \A q \in deleted :
              /\ q \notin Ids(questions')
              /\ q \notin ShownIds(req', resp')
              /\ (req'.endpoint = "delete_question" /\ req'.id = q) =>
                     (resp' = not_found /\ questions' = questions)
      ]_vars

\* C9, amended: DELETE of a stored id q either succeeds with deleted = q and
\* total_questions one less than before, removing exactly q and changing no
\* other question, or, when the delete fails in the store, is answered by
\* the 500 handler and leaves the store unchanged. While q is not stored, a
\* DELETE of q answers 404 and leaves the store unchanged, and q is shown by
\* no response; q is stored again only by a POST /questions that reports
\* created = q.
C9_DeleteUnlessWriteFails ==
    [][/\ (req'.endpoint = "delete_question" /\ req'.id \in Ids(questions)) =>
              \/ DeletedExactly(req'.id, questions, questions', resp')
              \/ (resp' = internal_server_error /\ questions' = questions)
       /\ (req'.endpoint = "delete_question" /\ req'.id \notin Ids(questions)) =>
              (resp' = not_found /\ questions' = questions)
       /\ \A q \in (1..MaxId) \ Ids(questions) :
              (q \in Ids(questions') \/ q \in ShownIds(req', resp')) =>
                  q \in CreatedIds(req', resp', questions, questions')
      ]_vars

\* A question was deleted, and a later DELETE of it was answered 404 and left
\* the other questions stored.
C9_Witness ==
    /\ req.endpoint = "delete_question" /\ resp.status = 404
    /\ req.id \in deleted
    /\ req.id \notin Ids(questions)
    /\ Len(questions) >= 1

\* C10: an error response has success false, a message string and an error
\* field equal to its HTTP status.
C10_ErrorFieldIsStatus ==
    resp.status >= 400 =>
        /\ resp.body.success = FALSE
        /\ resp.body.message \in STRING
        /\ resp.body.error = resp.status

====
